---- MODULE Spec2Model ----
(***************************************************************************)
(* A model of monoio's send operations (driver/op/send.rs) and of the      *)
(* cross-thread wake registry (driver/thread.rs).                          *)
(*                                                                         *)
(* Part I   the registry: two mutex-protected maps, driven by threads.     *)
(* Part II  the operation states Send, SendMsg and SendMsgUnix, their      *)
(*          constructors, their capability methods and their resolution.   *)
(***************************************************************************)
EXTENDS Integers, FiniteSets, Sequences, TLC

(***************************************************************************)
(* Bounds of the model.                                                    *)
(***************************************************************************)
\* Number of threads calling into the registry; every thread runs one driver,
\* whose id is the thread's number.
NThreads == 2
\* Number of distinct handle objects per mapping.
MaxHandle == 2

\* Number of operations that can be alive at once on the one descriptor.
MaxOps == 1
\* Number of times the reactor invokes legacy_call on one operation.
MaxCalls == 2

Threads == 1..NThreads
Ids == 1..NThreads
Handles == 1..MaxHandle

\* Option<T>: None is the empty set, Some(x) the singleton.
None == {}
Some(x) == {x}
Options(S) == {None} \cup {Some(x) : x \in S}

MapNames == {"UNPARK", "WAKER_SENDER"}
Fns == {"register", "unregister", "get"}

VARIABLES
  \* ---- Part I: driver/thread.rs
  UNPARK,        \* the map id -> UnparkHandle, a set of <<id, handle>> entries
  WAKER_SENDER,  \* the map id -> Sender<Waker>, a set of <<id, handle>> entries
  mutex,         \* mutex[m]: the thread holding the Mutex of map m, 0 when free
  rc,            \* rc[m][h]: live clones of the reference-counted handle h
  pc,            \* pc[t]: where thread t is in its registry call
  call,          \* call[t]: the call thread t is making or made last
  ref,           \* ref[t]: the Option<&V> returned by HashMap::get
  ret,           \* ret[t]: the Option<V> the thread's last lookup returned
  active,        \* the mappings the threads of this run call into
  disjoint,      \* TRUE when every thread only uses its own driver id
  last,          \* history: last[m][id], the handle of the latest register(id)
                 \* not followed by an unregister(id)
  own,           \* history: own[m][t], what thread t's own calls on its id give
  clean,         \* history: clean[t], the lookup in progress took the lock
                 \* when its id was unregistered
  raced,         \* history: raced[t], an unregister of the same id was waiting
                 \* for the lock when thread t's last lookup returned
  poisoned,      \* poisoned[m]: a holder of the Mutex of map m panicked
  \* ---- the driver that registers itself, and the threads that wake it
  drv,           \* where the driver is: starting, running, blocked in its
                 \* poll, stopping, gone
  mine,          \* history: mine[m], the handle the driver registered in m
  chan,          \* wake tokens in the driver's channel
  signal,        \* the driver's poll has been interrupted (unpark) and has
                 \* not yet returned
  seen,          \* wake tokens the driver has taken from its channel
  wk,            \* wk[t]: a waking thread's step, the clones it got from its
                 \* lookups and what it did with them
  \* ---- Part II: driver/op/send.rs
  cfg,           \* the build: target, backend and the zero-copy feature
  lens,          \* the buffer lengths the callers of this run use
  regIdx,        \* SharedFd::registered_index() of the descriptor
  sockAlive,     \* the socket value owning the descriptor is not yet dropped
  fdRefs,        \* live clones of the SharedFd
  fdOpen,        \* the descriptor is open
  heap,          \* the heap addresses in use
  op,            \* op[o]: the operation state in slot o
  panicked       \* a constructor hit unimplemented!()

regVars == <<UNPARK, WAKER_SENDER, mutex, rc, pc, call, ref, ret, active,
             disjoint, last, own, clean, raced, poisoned>>

wakeVars == <<drv, mine, chan, signal, seen, wk>>

opVars == <<cfg, lens, regIdx, sockAlive, fdRefs, fdOpen, heap, op, panicked>>

vars == <<regVars, opVars, wakeVars>>

(***************************************************************************)
(* Part I.  driver/thread.rs                                               *)
(***************************************************************************)

Map(m) == IF m = "UNPARK" THEN UNPARK ELSE WAKER_SENDER

\* A plausible slip: the lookup is made under the wrong key.
get_wrong_key(map, id) ==
  IF \E e \in map : e[1] = id + 1
  THEN Some(CHOOSE e \in map : e[1] = id + 1)
  ELSE None

\* FxHashMap::get(&id): a reference to the entry stored under id, if any.
get(map, id) ==
  IF \E e \in map : e[1] = id
  THEN Some(CHOOSE e \in map : e[1] = id)
  ELSE None

\* What a lookup of id yields: Option<&V>::cloned() of get.
lookup(map, id) == {e[2] : e \in get(map, id)}

\* A plausible slip: keep the entry already stored (entry().or_insert()).
insert_keeps_old(map, id, h) ==
  IF \E e \in map : e[1] = id THEN map ELSE map \cup {<<id, h>>}

\* FxHashMap::insert(id, h): the value stored under id is replaced.
insert(map, id, h) == {e \in map : e[1] # id} \cup {<<id, h>>}

\* A plausible slip: the map is cleared instead of one key removed.
remove_all(map, id) == {}

\* FxHashMap::remove(&id): the entry of id is removed if present.
remove(map, id) == {e \in map : e[1] # id}

\* The number of clones of handle h a map stores.
Stored(map, h) == Cardinality({e \in map : e[2] = h})

\* rc after map m went from `old` to `new`, the clones in `made` were created
\* and those in `gone` went out of scope: a clone is stored or dropped.
Rc(m, old, new, made, gone) ==
  [rc EXCEPT ![m] = [h \in Handles |->
      rc[m][h] + Stored(new, h) - Stored(old, h)
               + (IF h \in made THEN 1 ELSE 0) - (IF h \in gone THEN 1 ELSE 0)]]

\* call[t] of a thread that is not in a lookup and holds no lookup result.
IdleCall == [fn |-> "none", m |-> "UNPARK", id |-> 1]

\* The state when no driver has started: both maps are empty (Lazy::new).
\* `maps` are the mappings the threads call into, dj whether they keep to
\* their own ids.
InitRegistry(maps, dj) ==
  /\ UNPARK = {}
  /\ WAKER_SENDER = {}
  /\ mutex = [m \in MapNames |-> 0]
  /\ rc = [m \in MapNames |-> [h \in Handles |-> 0]]
  /\ pc = [t \in Threads |-> "idle"]
  /\ call = [t \in Threads |-> IdleCall]
  /\ ref = [t \in Threads |-> None]
  /\ ret = [t \in Threads |-> None]
  /\ active \in maps
  /\ disjoint = dj
  /\ last = [m \in MapNames |-> [i \in Ids |-> None]]
  /\ own = [m \in MapNames |-> [t \in Threads |-> None]]
  /\ clean = [t \in Threads |-> FALSE]
  /\ raced = [t \in Threads |-> FALSE]
  /\ poisoned = [m \in MapNames |-> FALSE]

\* Thread t enters function fn of map m with argument id.  The value its
\* previous lookup returned goes out of scope.
Enter(t, fn, m, id) ==
  /\ pc[t] = "idle"
  /\ call' = [call EXCEPT ![t] = [fn |-> fn, m |-> m, id |-> id]]
  /\ rc' = Rc(call[t].m, {}, {}, {}, ret[t])
  /\ pc' = [pc EXCEPT ![t] = "lock"]
  /\ ret' = [ret EXCEPT ![t] = None]
  /\ raced' = [raced EXCEPT ![t] = FALSE]
  /\ UNCHANGED <<UNPARK, WAKER_SENDER, mutex, ref, active, disjoint, last, own,
                 clean, poisoned, opVars>>

\* Thread t enters one of the six registry functions.
Call(t) ==
  /\ \E fn \in Fns, m \in active, id \in Ids :
       /\ disjoint => id = t
       /\ Enter(t, fn, m, id)
  /\ UNCHANGED wakeVars

\* A plausible slip: a poisoned Mutex is used all the same
\* (unwrap_or_else(PoisonError::into_inner)).
expect_into_inner(poison) == "guard"

\* .expect("Unable to lock global map, which is unexpected"): the guard, or a
\* panic when lock() reports the Mutex poisoned.
expect(poison) == IF poison THEN "panic" ELSE "guard"

\* What thread t does once X.lock() has given its answer: it goes on with the
\* guard, or unwinds (the guard inside the PoisonError is dropped with it).
Locked(t) ==
  IF expect(poisoned[call[t].m]) = "guard"
  THEN /\ mutex' = [mutex EXCEPT ![call[t].m] = t]
       /\ pc' = [pc EXCEPT ![t] = "crit"]
       /\ clean' = [clean EXCEPT ![t] =
                      call[t].fn = "get" /\ last[call[t].m][call[t].id] = None]
  ELSE /\ pc' = [pc EXCEPT ![t] = "aborted"]
       /\ UNCHANGED <<mutex, clean>>

\* A plausible slip: the map is reached without waiting for its Mutex.
lock_no_exclusion(t) ==
  /\ pc[t] = "lock"
  /\ Locked(t)
  /\ UNCHANGED <<UNPARK, WAKER_SENDER, rc, call, ref, ret, active, disjoint,
                 last, own, raced, poisoned, opVars, wakeVars>>

\* lock!(X): X.lock() blocks until the Mutex is free.
lock(t) ==
  /\ pc[t] = "lock"
  /\ mutex[call[t].m] = 0
  /\ Locked(t)
  /\ UNCHANGED <<UNPARK, WAKER_SENDER, rc, call, ref, ret, active, disjoint,
                 last, own, raced, poisoned, opVars, wakeVars>>

\* A plausible slip: the guard outlives the statement (it is leaked or kept).
Return_keeps_guard(t, m) ==
  /\ mutex' = mutex
  /\ pc' = [pc EXCEPT ![t] = "idle"]
  /\ clean' = [clean EXCEPT ![t] = FALSE]

\* The guard, a temporary, is dropped at the end of the statement, and the
\* function returns.
Return(t, m) ==
  /\ mutex' = [mutex EXCEPT ![m] = IF @ = t THEN 0 ELSE @]
  /\ pc' = [pc EXCEPT ![t] = "idle"]
  /\ clean' = [clean EXCEPT ![t] = FALSE]

\* The history variables after thread t's call has stored v under its id.
Record(t, m, v) ==
  /\ last' = [last EXCEPT ![m][call[t].id] = v]
  /\ own' = IF disjoint THEN [own EXCEPT ![m][t] = v] ELSE own

\* The body of a register function on map m, which goes from `map` to `new`:
\* the handle h passed by the caller is moved into the map.
Register(t, m, map, new) ==
  /\ pc[t] = "crit"
  /\ call[t].fn = "register"
  /\ call[t].m = m
  /\ \E h \in Handles :
       /\ new = insert(map, call[t].id, h)
       /\ rc' = Rc(m, map, new, {}, {})
       /\ Record(t, m, Some(h))
  /\ Return(t, m)
  /\ call' = [call EXCEPT ![t] = IdleCall]
  /\ UNCHANGED <<ref, ret, active, disjoint, raced, poisoned, opVars, wakeVars>>

\* The body of an unregister function on map m.
Unregister(t, m, map, new) ==
  /\ pc[t] = "crit"
  /\ call[t].fn = "unregister"
  /\ call[t].m = m
  /\ new = remove(map, call[t].id)
  /\ rc' = Rc(m, map, new, {}, {})
  /\ Record(t, m, None)
  /\ Return(t, m)
  /\ call' = [call EXCEPT ![t] = IdleCall]
  /\ UNCHANGED <<ref, ret, active, disjoint, raced, poisoned, opVars, wakeVars>>

\* Another thread waits for the lock in a call of fn on the map and id of
\* thread t's call.
Waiting(t, fn) ==
  \E u \in Threads \ {t} :
    /\ pc[u] = "lock" /\ call[u].fn = fn
    /\ call[u].m = call[t].m /\ call[u].id = call[t].id

\* What cloning through the reference r yields.  A reference to an entry that
\* is no longer in the map dangles: reading it is undefined behaviour, and any
\* value may come out.
Cloned(map, r) ==
  IF r \subseteq map THEN {{e[2] : e \in r}} ELSE Options(Handles)

\* Option<&V>::cloned(): one more clone of the handle in v is alive.
cloned(m, v) == Rc(m, {}, {}, v, {})

\* The body of a get function on map m: HashMap::get, then cloned().
Get(t, m, map) ==
  /\ call[t].fn = "get"
  /\ call[t].m = m
  /\ \/ /\ pc[t] = "crit"
        /\ ref' = [ref EXCEPT ![t] = get(map, call[t].id)]
        /\ pc' = [pc EXCEPT ![t] = "found"]
        /\ UNCHANGED <<mutex, rc, ret, clean, raced>>
     \/ /\ pc[t] = "found"
        /\ \E v \in Cloned(map, ref[t]) :
             /\ ret' = [ret EXCEPT ![t] = v]
             /\ rc' = cloned(m, v)
        /\ ref' = [ref EXCEPT ![t] = None]
        /\ raced' = [raced EXCEPT ![t] = Waiting(t, "unregister")]
        /\ Return(t, m)
  /\ UNCHANGED <<call, active, disjoint, last, own, poisoned, opVars, wakeVars>>

register_unpark_handle(t) ==
  /\ Register(t, "UNPARK", UNPARK, UNPARK')
  /\ UNCHANGED WAKER_SENDER

unregister_unpark_handle(t) ==
  /\ Unregister(t, "UNPARK", UNPARK, UNPARK')
  /\ UNCHANGED WAKER_SENDER

get_unpark_handle(t) ==
  /\ Get(t, "UNPARK", UNPARK)
  /\ UNCHANGED <<UNPARK, WAKER_SENDER>>

\* A plausible slip: the sender is stored in the map of the unpark handles.
register_waker_sender_in_unpark(t) ==
  /\ Register(t, "WAKER_SENDER", UNPARK, UNPARK')
  /\ UNCHANGED WAKER_SENDER

register_waker_sender(t) ==
  /\ Register(t, "WAKER_SENDER", WAKER_SENDER, WAKER_SENDER')
  /\ UNCHANGED UNPARK

unregister_waker_sender(t) ==
  /\ Unregister(t, "WAKER_SENDER", WAKER_SENDER, WAKER_SENDER')
  /\ UNCHANGED UNPARK

get_waker_sender(t) ==
  /\ Get(t, "WAKER_SENDER", WAKER_SENDER)
  /\ UNCHANGED <<UNPARK, WAKER_SENDER>>

NextRegistry ==
  \E t \in Threads :
    \/ Call(t)
    \/ lock(t)
    \/ register_unpark_handle(t)
    \/ unregister_unpark_handle(t)
    \/ get_unpark_handle(t)
    \/ register_waker_sender(t)
    \/ unregister_waker_sender(t)
    \/ get_waker_sender(t)

\* The statement of the function thread t is in, past its lock.
Statement(t) ==
  \/ register_unpark_handle(t)
  \/ unregister_unpark_handle(t)
  \/ get_unpark_handle(t)
  \/ register_waker_sender(t)
  \/ unregister_waker_sender(t)
  \/ get_waker_sender(t)

\* A fair scheduler: a thread that can run its statement does, and a thread
\* that waits for a Mutex that is free again and again gets it.
Fair ==
  \A t \in Threads : SF_vars(lock(t)) /\ WF_vars(Statement(t))

\* A thread panics inside the statement, while it holds the guard: the guard
\* is dropped by the unwinding, which poisons the Mutex; the map is left as
\* it is.
Panic(t) ==
  /\ pc[t] \in {"crit", "found"}
  /\ pc' = [pc EXCEPT ![t] = "died"]
  /\ mutex' = [mutex EXCEPT ![call[t].m] = 0]
  /\ poisoned' = [poisoned EXCEPT ![call[t].m] = TRUE]
  /\ ref' = [ref EXCEPT ![t] = None]
  /\ UNCHANGED <<UNPARK, WAKER_SENDER, rc, call, ret, active, disjoint, last,
                 own, clean, raced, opVars, wakeVars>>

NextPoison ==
  \/ NextRegistry
  \/ \E t \in Threads : Panic(t)

(***************************************************************************)
(* The registry at work: a driver registers itself in both maps when it    *)
(* starts and removes itself when it stops; other threads look it up and   *)
(* wake it.                                                                *)
(***************************************************************************)

\* The driver runs on thread 1 under id 1; the other threads wake it.
Driver == 1
Wakers == Threads \ {Driver}

\* A waking thread that has not begun.
IdleWaker ==
  [pc |-> "start", held |-> [m \in MapNames |-> None],
   sure |-> [m \in MapNames |-> FALSE], ok |-> FALSE,
   pushed |-> FALSE, unparked |-> FALSE]

\* The driver is in map m and has not begun to shut down.
Registered(m) ==
  (\E e \in Map(m) : e[1] = Driver) /\ drv \in {"running", "blocked"}

\* The driver starts: it registers its unpark handle, then its sender.
DriverStart ==
  /\ drv \in {"new", "half"}
  /\ Enter(Driver, "register", IF drv = "new" THEN "UNPARK" ELSE "WAKER_SENDER",
           Driver)
  /\ drv' = IF drv = "new" THEN "half" ELSE "running"
  /\ UNCHANGED <<mine, chan, signal, seen, wk>>

\* The driver's register calls store the driver's own handles.
DriverRegister ==
  /\ \/ register_unpark_handle(Driver)
     \/ register_waker_sender(Driver)
  /\ last'[call[Driver].m][Driver] = mine[call[Driver].m]

\* The driver has nothing to run and blocks in its OS polling call.
Block ==
  /\ drv = "running" /\ pc[Driver] = "idle"
  /\ drv' = "blocked"
  /\ UNCHANGED <<regVars, opVars, mine, chan, signal, seen, wk>>

\* What the driver does when its poll returns: it takes the wake tokens out
\* of its channel.
Drain ==
  /\ drv' = "running"
  /\ seen' = seen \cup chan
  /\ chan' = {}

\* The poll was interrupted through the unpark handle: it returns.
Wake ==
  /\ drv = "blocked" /\ signal
  /\ signal' = FALSE
  /\ Drain
  /\ UNCHANGED <<regVars, opVars, mine, wk>>

\* The poll returns by itself (an I/O event, its timeout).
Timeout ==
  /\ drv = "blocked"
  /\ Drain
  /\ UNCHANGED <<regVars, opVars, mine, signal, wk>>

\* The driver shuts down: it removes its two entries.
DriverStop ==
  /\ drv \in {"running", "stopping"}
  /\ Enter(Driver, "unregister",
           IF drv = "running" THEN "UNPARK" ELSE "WAKER_SENDER", Driver)
  /\ drv' = IF drv = "running" THEN "stopping" ELSE "stopped"
  /\ wk' = [w \in Threads |-> [wk[w] EXCEPT !.ok = FALSE]]
  /\ UNCHANGED <<mine, chan, signal, seen>>

\* The driver is dropped, and with it the receiving end of its channel.
DriverGone ==
  /\ drv = "stopped" /\ pc[Driver] = "idle"
  /\ drv' = "gone"
  /\ chan' = {}
  /\ UNCHANGED <<regVars, opVars, mine, signal, seen, wk>>

\* Thread w looks the driver up: first its sender, then its unpark handle.
\* ok records that the driver was in the map when the lookup began.
WakerGet(w) ==
  /\ wk[w].pc \in {"start", "got1"}
  /\ LET m == IF wk[w].pc = "start" THEN "WAKER_SENDER" ELSE "UNPARK"
     IN /\ Enter(w, "get", m, Driver)
        /\ wk' = [wk EXCEPT ![w].pc = IF m = "WAKER_SENDER" THEN "get1" ELSE "get2",
                            ![w].ok = Registered(m)]
  /\ UNCHANGED <<drv, mine, chan, signal, seen>>

\* The lookup has returned: thread w keeps the clone it was given.  sure
\* records that the driver stayed in the map all through the lookup.
WakerTake(w) ==
  /\ wk[w].pc \in {"get1", "get2"} /\ pc[w] = "idle"
  /\ LET m == call[w].m
     IN wk' = [wk EXCEPT ![w].pc = IF m = "WAKER_SENDER" THEN "got1" ELSE "got2",
                         ![w].held[m] = ret[w],
                         ![w].sure[m] = wk[w].ok]
  /\ ret' = [ret EXCEPT ![w] = None]
  /\ UNCHANGED <<UNPARK, WAKER_SENDER, mutex, rc, pc, call, ref, active,
                 disjoint, last, own, clean, raced, poisoned, opVars,
                 drv, mine, chan, signal, seen>>

\* Thread w pushes a wake token through the sender it got: the token reaches
\* the channel of the driver whose sender that is, while the receiver lives.
Push(w) ==
  /\ wk[w].pc = "got2"
  /\ LET sent == /\ wk[w].held["WAKER_SENDER"] # None
                 /\ wk[w].held["WAKER_SENDER"] = mine["WAKER_SENDER"]
                 /\ drv # "gone"
     IN /\ chan' = IF sent THEN chan \cup {w} ELSE chan
        /\ wk' = [wk EXCEPT ![w].pc = "pushed", ![w].pushed = sent]
  /\ UNCHANGED <<regVars, opVars, drv, mine, signal, seen>>

\* Thread w invokes the unpark handle it got: the poll of the driver whose
\* handle that is returns, now or when it next blocks.
Unpark(w) ==
  /\ wk[w].pc = "pushed"
  /\ LET rung == /\ wk[w].held["UNPARK"] # None
                 /\ wk[w].held["UNPARK"] = mine["UNPARK"]
                 /\ drv # "gone"
     IN /\ signal' = (signal \/ rung)
        /\ wk' = [wk EXCEPT ![w].pc = "done", ![w].unparked = rung]
  /\ UNCHANGED <<regVars, opVars, drv, mine, chan, seen>>

NextWake ==
  \/ DriverStart
  \/ DriverRegister
  \/ Block
  \/ Wake
  \/ Timeout
  \/ DriverStop
  \/ DriverGone
  \/ \E t \in Threads :
       \/ lock(t)
       \/ unregister_unpark_handle(t)
       \/ unregister_waker_sender(t)
       \/ get_unpark_handle(t)
       \/ get_waker_sender(t)
  \/ \E w \in Wakers :
       \/ WakerGet(w)
       \/ WakerTake(w)
       \/ Push(w)
       \/ Unpark(w)

(***************************************************************************)
(* Part II.  driver/op/send.rs                                             *)
(***************************************************************************)

Ops == 1..MaxOps

\* A usize length, as three 16-bit digits <<d2, d1, d0>> of value
\* d2 * 2^32 + d1 * 2^16 + d0, so that lengths of 2^32 and above keep their
\* width.
Bytes(n) == <<0, n \div 65536, n % 65536>>

\* a >= b on lengths.
GE(a, b) ==
  \/ a[1] > b[1]
  \/ a[1] = b[1] /\ a[2] > b[2]
  \/ a[1] = b[1] /\ a[2] = b[2] /\ a[3] >= b[3]

\* `as u32` of a length: the low 32 bits.
AsU32(a) == <<0, a[2], a[3]>>

\* `as usize` of a u32: nothing is lost.
AsUsize(a) == a

\* libc::MSG_NOSIGNAL (0x4000).
MSG_NOSIGNAL == 16384

\* const MSG_ZEROCOPY: libc::c_int = 0x4000000.
MSG_ZEROCOPY == 67108864

\* const MSG_ZEROCOPY_THRESHOLD: usize = 10 * 1024 * 1024.
MSG_ZEROCOPY_THRESHOLD == Bytes(10 * 1024 * 1024)

\* Flag words: whether the single bit `bit` is set in f, and f | bit.
HasFlag(f, bit) == (f \div bit) % 2 = 1
BitOr(f, bit) == IF HasFlag(f, bit) THEN f ELSE f + bit

\* The builds: target_os, the driver feature, and the zero-copy feature
\* (which only the io_uring code reads).
UringBuilds ==
  {[target |-> "linux", backend |-> "uring", zero_copy |-> z] : z \in BOOLEAN}
LegacyBuilds ==
  {[target |-> t, backend |-> "legacy", zero_copy |-> FALSE] :
     t \in {"linux", "macos", "windows"}}
Builds == UringBuilds \cup LegacyBuilds

\* Raw pointers: an address and the field of the object there.
Ptr(base, field) == [base |-> base, field |-> field]
NULL == Ptr(0, "null")

\* Heap addresses, and the allocator: the lowest address not in use.
HeapAddrs == 1..(2 * MaxOps)
Alloc(used) == CHOOSE a \in HeapAddrs \ used : \A b \in HeapAddrs \ used : a <= b

\* Where the operation state of slot o itself lives: the constructor's frame,
\* the driver's slab, the awaiting task.
StackPlace(o) == 100 + o
SlabPlace(o) == 200 + o
TaskPlace(o) == 300 + o

\* A buffer T: IoBuf, with its identity, its storage and its initialized length.
NoBuf == [id |-> 0, ptr |-> NULL, len |-> Bytes(0)]
NewBuf(o, len) == [id |-> o, ptr |-> Ptr(Alloc(heap), "data"), len |-> len]
read_ptr(buf) == buf.ptr
bytes_init(buf) == buf.len

\* io::Result<u32>.
Ok(v) == [ok |-> TRUE, v |-> v, errno |-> 0]
Err(e) == [ok |-> FALSE, v |-> Bytes(0), errno |-> e]
NoResult == [ok |-> FALSE, v |-> Bytes(0), errno |-> 0]
\* EAGAIN / EWOULDBLOCK and EPIPE.
WouldBlock == Err(11)
BrokenPipe == Err(32)

\* SharedFd: a reference-counted handle; the descriptor is closed when the last
\* clone is dropped.
raw_fd == 3
SharedFd_clone(refs) == refs + 1
SharedFd_drop(refs) == refs - 1
SharedFd_open(refs) == refs > 0

\* Destination addresses.  SockAddr::from(SocketAddr) holds a sockaddr_in (16
\* bytes) or a sockaddr_in6 (28 bytes); a UnixSocketAddr holds a sockaddr_un
\* and the length of its family field and path.
SocketAddrs == {"V4", "V6"}
SockAddr_from(a) ==
  [family |-> a, len |-> IF a = "V4" THEN 16 ELSE 28]
UnixSocketAddrs ==
  {[family |-> "UNIX", len |-> IF n = 0 THEN 2 ELSE 2 + n + 1] : n \in {0, 7}}

\* libc::iovec and libc::msghdr; std::mem::zeroed().
Iovec(base, len) == [iov_base |-> base, iov_len |-> len]
ZeroedMsghdr ==
  [msg_name |-> NULL, msg_namelen |-> 0, msg_iov |-> NULL, msg_iovlen |-> 0]

\* info: Box<(Option<SockAddr>, [libc::iovec; 1], libc::msghdr)>, and where
\* the tuple is.
NoInfo ==
  [at |-> 0, addr |-> None, iov |-> Iovec(NULL, Bytes(0)), hdr |-> ZeroedMsghdr]

\* What is handed to the kernel: a submission entry, or a syscall's arguments.
NoEntry ==
  [opcode |-> "none", fd |-> 0, ptr |-> NULL, len |-> Bytes(0), msg |-> NULL,
   flags |-> 0]

NoOut == [given |-> FALSE, result |-> NoResult, buf |-> NoBuf]

\* An empty slot.  st is the state's place in its life; fd the SharedFd
\* clones it holds; loc where the struct is; entry what was last handed to
\* the kernel; interest what legacy_interest returned; calls and sys the
\* invocations of legacy_call and the send syscalls made; os the outcome the
\* kernel gave the syscall of the last call; result the
\* CompletionMeta's result; out the pair handed to the caller.  supplied, dest and born record the constructor's buffer
\* and destination and the address it placed the bundle at.
NoOp ==
  [st |-> "none", kind |-> "none", fd |-> 0, buf |-> NoBuf, info |-> NoInfo,
   loc |-> 0, entry |-> NoEntry, interest |-> None, calls |-> 0, sys |-> 0,
   os |-> NoResult, result |-> NoResult, abandoned |-> FALSE, out |-> NoOut,
   supplied |-> NoBuf, dest |-> None, born |-> 0]

\* Send { fd, buf }
Send(o, buf) ==
  [NoOp EXCEPT !.st = "built", !.kind = "Send", !.fd = 1, !.buf = buf,
               !.loc = StackPlace(o), !.supplied = buf]

\* SendMsg { fd, buf, info } and SendMsgUnix { fd, buf, info }
SendMsg(o, kind, buf, info, dest) ==
  [NoOp EXCEPT !.st = "built", !.kind = kind, !.fd = 1, !.buf = buf,
               !.info = info, !.loc = StackPlace(o), !.supplied = buf,
               !.dest = dest, !.born = info.at]

\* A plausible slip: the descriptor is kept without a clone of the handle.
send_raw_borrows(refs) == refs

\* send_raw: `fd: fd.clone()`.
send_raw_fd(refs) == SharedFd_clone(refs)

\* A plausible slip: the tuple is stored in the struct, not in a Box.
Box_inline(o, used) == StackPlace(o)

\* Box::new: the tuple gets a heap allocation of its own.
Box_new(o, used) == Alloc(used)

\* A plausible slip: msg_namelen is the size of a sockaddr_in.
namelen_sockaddr_in(socket_addr) == 16

\* socket_addr.len()
namelen(socket_addr) == socket_addr.len

\* The body of send_msg and of send_msg_unix up to submit_with: addr is the
\* converted destination, at the address of the boxed tuple.
SendMsgInfo(buf, addr, at) ==
  LET iovec == Iovec(read_ptr(buf), bytes_init(buf))
      hdr == [ZeroedMsghdr EXCEPT !.msg_iov = Ptr(at, "iov"), !.msg_iovlen = 1]
  IN [at |-> at, addr |-> addr, iov |-> iovec,
      hdr |-> IF addr # None
              THEN LET socket_addr == CHOOSE a \in addr : TRUE
                   IN [hdr EXCEPT !.msg_name = Ptr(at, "addr"),
                                  !.msg_namelen = namelen(socket_addr)]
              ELSE [hdr EXCEPT !.msg_name = NULL, !.msg_namelen = 0]]

\* The state after a move to `place`: what the struct holds inline moves with
\* it, what it holds behind a Box stays where it is.
Moved(s, place) ==
  [s EXCEPT !.loc = place,
            !.info = [@ EXCEPT !.at = IF @ = s.loc THEN place ELSE @]]

\* fn zero_copy_flag_guard(buf)
zero_copy_flag_guard_gt(buf) ==
  IF bytes_init(buf) # MSG_ZEROCOPY_THRESHOLD
     /\ GE(bytes_init(buf), MSG_ZEROCOPY_THRESHOLD)
  THEN BitOr(MSG_NOSIGNAL, MSG_ZEROCOPY)
  ELSE MSG_NOSIGNAL

zero_copy_flag_guard(buf) ==
  IF GE(bytes_init(buf), MSG_ZEROCOPY_THRESHOLD)
  THEN BitOr(MSG_NOSIGNAL, MSG_ZEROCOPY)
  ELSE MSG_NOSIGNAL

\* Send::uring_op
Send_uring_op(s) ==
  [opcode |-> "Send", fd |-> raw_fd, ptr |-> read_ptr(s.buf),
   len |-> AsU32(bytes_init(s.buf)), msg |-> NULL,
   flags |-> IF cfg.zero_copy THEN zero_copy_flag_guard(s.buf) ELSE MSG_NOSIGNAL]

\* SendMsg::uring_op and SendMsgUnix::uring_op
SendMsg_uring_op(s) ==
  [opcode |-> "SendMsg", fd |-> raw_fd, ptr |-> NULL, len |-> Bytes(0),
   msg |-> Ptr(s.info.at, "hdr"), flags |-> MSG_NOSIGNAL]

uring_op(s) == IF s.kind = "Send" THEN Send_uring_op(s) ELSE SendMsg_uring_op(s)

\* A plausible slip: a missing registration becomes token 0.
legacy_interest_or_default(s) ==
  IF regIdx = None THEN Some(<<"Write", 0>>)
  ELSE {<<"Write", idx>> : idx \in regIdx}

\* legacy_interest: self.fd.registered_index().map(|idx| (Direction::Write, idx))
legacy_interest(s) == {<<"Write", idx>> : idx \in regIdx}

\* The flags of the raw call: MSG_NOSIGNAL on Linux, none elsewhere.
LegacyFlags == IF cfg.target = "linux" THEN MSG_NOSIGNAL ELSE 0

\* The arguments of the syscall legacy_call makes.
Send_legacy_args(s) ==
  [opcode |-> "send", fd |-> raw_fd, ptr |-> read_ptr(s.buf),
   len |-> bytes_init(s.buf), msg |-> NULL, flags |-> LegacyFlags]

SendMsg_legacy_args(s) ==
  [opcode |-> "sendmsg", fd |-> raw_fd, ptr |-> NULL, len |-> Bytes(0),
   msg |-> Ptr(s.info.at, "hdr"), flags |-> LegacyFlags]

\* The bytes a send over `e` asks the kernel to take from state s.
Requested(s, e) == IF s.kind = "Send" THEN e.len ELSE s.info.iov.iov_len

\* A plausible slip: the call advances the buffer past the bytes it sent.
legacy_call_consumes(s, outcome) ==
  LET e == IF s.kind = "Send" THEN Send_legacy_args(s) ELSE SendMsg_legacy_args(s)
  IN [s EXCEPT !.entry = e, !.calls = @ + 1, !.sys = @ + 1, !.result = outcome,
               !.buf = IF outcome.ok THEN [@ EXCEPT !.len = Bytes(0)] ELSE @]

\* A plausible slip: a would-block outcome is retried inside the call (and the
\* retry succeeds).
legacy_call_retries(s, outcome) ==
  LET e == IF s.kind = "Send" THEN Send_legacy_args(s) ELSE SendMsg_legacy_args(s)
  IN IF outcome = WouldBlock
     THEN [s EXCEPT !.entry = e, !.calls = @ + 1, !.sys = @ + 2,
                    !.result = Ok(Requested(s, e))]
     ELSE [s EXCEPT !.entry = e, !.calls = @ + 1, !.sys = @ + 1,
                    !.result = outcome]

\* legacy_call: one syscall_u32!(send(..)) or syscall_u32!(sendmsg(..)), whose
\* outcome is returned as it is.
legacy_call(s, outcome) ==
  LET e == IF s.kind = "Send" THEN Send_legacy_args(s) ELSE SendMsg_legacy_args(s)
  IN [s EXCEPT !.entry = e, !.calls = @ + 1, !.sys = @ + 1, !.result = outcome]

\* A plausible slip: the buffer is only handed back on success.
write_drops_on_error(complete) ==
  [given |-> TRUE,
   result |-> IF complete.result.ok THEN Ok(AsUsize(complete.result.v))
              ELSE complete.result,
   buf |-> IF complete.result.ok THEN complete.buf ELSE NoBuf]

\* Op<Send<T>>::write, Op<SendMsg<T>>::wait and Op<SendMsgUnix<T>>::wait:
\* (complete.meta.result.map(|v| v as _), complete.data.buf)
write(complete) ==
  [given |-> TRUE,
   result |-> IF complete.result.ok THEN Ok(AsUsize(complete.result.v))
              ELSE complete.result,
   buf |-> complete.buf]

wait(complete) ==
  LET res == IF complete.result.ok THEN Ok(AsUsize(complete.result.v))
             ELSE complete.result
      buf == complete.buf
  IN [given |-> TRUE, result |-> res, buf |-> buf]

\* Op::submit_with: the state is moved into the driver's slab.  The io_uring
\* driver builds the submission entry and pushes it; the legacy driver makes
\* no call until the operation is polled.
submit_with(o, data) ==
  LET s == Moved(data, SlabPlace(o))
  IN IF cfg.backend = "uring"
     THEN [s EXCEPT !.st = "inflight", !.entry = uring_op(s)]
     ELSE [s EXCEPT !.st = "submitted"]

\* Slot o is the next one to use: slots are handed out in order.
Free(o) == op[o].st = "none" /\ \A p \in 1..(o - 1) : op[p].st # "none"

\* The state in slot o still exists.
Alive(o) ==
  op[o].st \notin {"none", "failed", "resolved", "discarded", "dropped"}

\* The state in slot o has been submitted and the backend has not yet
\* reported its resolution.
Pending(o) == op[o].st \in {"inflight", "submitted", "waiting", "parked"}

\* Op<Send<T>>::send(fd, buf): the caller passes a clone of the socket's handle.
send(o) ==
  /\ Free(o) /\ sockAlive /\ ~panicked
  /\ \E len \in lens :
       LET buf == NewBuf(o, len)
       IN /\ op' = [op EXCEPT ![o] = submit_with(o, Send(o, buf))]
          /\ heap' = heap \cup {buf.ptr.base}
  /\ fdRefs' = SharedFd_clone(fdRefs)
  /\ UNCHANGED <<cfg, lens, regIdx, sockAlive, fdOpen, panicked, regVars, wakeVars>>

\* Op<Send<T>>::send_raw(&fd, buf): the state is handed to the caller, who
\* drives it (poll-io).
send_raw(o) ==
  /\ Free(o) /\ sockAlive /\ ~panicked
  /\ cfg.backend = "legacy"
  /\ \E len \in lens :
       LET buf == NewBuf(o, len)
       IN /\ op' = [op EXCEPT ![o] = [Send(o, buf) EXCEPT !.st = "raw"]]
          /\ heap' = heap \cup {buf.ptr.base}
  /\ fdRefs' = send_raw_fd(fdRefs)
  /\ UNCHANGED <<cfg, lens, regIdx, sockAlive, fdOpen, panicked, regVars, wakeVars>>

\* The constructor of a message send with destination `dest` (an Option) that
\* converts to `addr`.
SendMsgNew(o, kind, dest, addr) ==
  \E len \in lens :
    LET buf == NewBuf(o, len)
        at == Box_new(o, heap \cup {buf.ptr.base})
        info == SendMsgInfo(buf, addr, at)
    IN /\ op' = [op EXCEPT ![o] = submit_with(o, SendMsg(o, kind, buf, info, dest))]
       /\ heap' = heap \cup ({buf.ptr.base, at} \cap HeapAddrs)

\* A plausible slip: the unix constructor is compiled on every target.
send_msg_everywhere(o) ==
  /\ Free(o) /\ sockAlive /\ ~panicked
  /\ \E socket_addr \in Options(SocketAddrs) :
       SendMsgNew(o, "SendMsg", socket_addr,
                  {SockAddr_from(a) : a \in socket_addr})
  /\ fdRefs' = SharedFd_clone(fdRefs)
  /\ UNCHANGED <<cfg, lens, regIdx, sockAlive, fdOpen, panicked, regVars,
                 wakeVars>>

\* Op<SendMsg<T>>::send_msg(fd, buf, socket_addr).  On Windows the body is
\* unimplemented!(): the call panics, and its arguments are dropped; the slot
\* records the failed call.
send_msg(o) ==
  /\ Free(o) /\ sockAlive /\ ~panicked
  /\ \/ /\ cfg.target # "windows"
        /\ \E socket_addr \in Options(SocketAddrs) :
             SendMsgNew(o, "SendMsg", socket_addr,
                        {SockAddr_from(a) : a \in socket_addr})
        /\ fdRefs' = SharedFd_clone(fdRefs)
        /\ UNCHANGED panicked
     \/ /\ cfg.target = "windows"
        /\ panicked' = TRUE
        /\ op' = [op EXCEPT ![o] = [NoOp EXCEPT !.st = "failed",
                                                !.kind = "SendMsg"]]
        /\ UNCHANGED <<heap, fdRefs>>
  /\ UNCHANGED <<cfg, lens, regIdx, sockAlive, fdOpen, regVars, wakeVars>>

\* Op<SendMsgUnix<T>>::send_msg_unix(fd, buf, socket_addr), cfg(unix).
send_msg_unix(o) ==
  /\ Free(o) /\ sockAlive /\ ~panicked
  /\ cfg.target # "windows"
  /\ \E socket_addr \in Options(UnixSocketAddrs) :
       SendMsgNew(o, "SendMsgUnix", socket_addr, socket_addr)
  /\ fdRefs' = SharedFd_clone(fdRefs)
  /\ UNCHANGED <<cfg, lens, regIdx, sockAlive, fdOpen, panicked, regVars, wakeVars>>

\* The io_uring backend: the kernel performs the send of a pushed entry and
\* posts its completion.
Complete(o) ==
  /\ op[o].st = "inflight"
  /\ \E r \in {Ok(Requested(op[o], op[o].entry)), BrokenPipe} :
       op' = [op EXCEPT ![o] = [@ EXCEPT !.st = "completed", !.sys = @ + 1,
                                         !.os = r, !.result = r]]
  /\ UNCHANGED <<cfg, lens, regIdx, sockAlive, fdRefs, fdOpen, heap, panicked,
                 regVars, wakeVars>>

\* The legacy backend polls a submitted operation: it asks for its interest,
\* and does not drive an operation that reports none.
Poll(o) ==
  /\ op[o].st = "submitted"
  /\ LET i == legacy_interest(op[o])
     IN op' = [op EXCEPT ![o] = [@ EXCEPT !.interest = i,
                 !.st = IF i = None THEN "parked" ELSE "waiting"]]
  /\ UNCHANGED <<cfg, lens, regIdx, sockAlive, fdRefs, fdOpen, heap, panicked,
                 regVars, wakeVars>>

\* The descriptor is writable: the reactor, or the owner of a raw state, makes
\* the raw call.  A would-block outcome leaves the operation waiting.
Ready(o) ==
  /\ op[o].st \in {"waiting", "raw"}
  /\ op[o].calls < MaxCalls
  /\ \E outcome \in {Ok(AsU32(bytes_init(op[o].buf))), WouldBlock, BrokenPipe} :
       LET s == legacy_call(op[o], outcome)
       IN op' = [op EXCEPT ![o] =
            [s EXCEPT !.os = outcome,
                      !.st = IF op[o].st = "raw" THEN "raw"
                             ELSE IF s.result = WouldBlock THEN "waiting"
                             ELSE "completed"]]
  /\ UNCHANGED <<cfg, lens, regIdx, sockAlive, fdRefs, fdOpen, heap, panicked,
                 regVars, wakeVars>>

\* The state in slot o is dropped: its SharedFd clone and its Box go.
DropState(o, freed) ==
  /\ fdRefs' = IF op[o].fd = 1 THEN SharedFd_drop(fdRefs) ELSE fdRefs
  /\ fdOpen' = (fdOpen /\ SharedFd_open(fdRefs'))
  /\ heap' = heap \ ({op[o].info.at} \cup freed)

\* The awaited operation resolves: write() or wait() returns the pair, and
\* what is left of the state is dropped.
Resolve(o) ==
  /\ op[o].st = "completed" /\ ~op[o].abandoned
  /\ LET complete == Moved(op[o], TaskPlace(o))
         pair == IF complete.kind = "Send" THEN write(complete) ELSE wait(complete)
     IN op' = [op EXCEPT ![o] = [complete EXCEPT !.st = "resolved", !.out = pair,
                 !.fd = 0, !.buf = NoBuf, !.info = NoInfo]]
  /\ DropState(o, {})
  /\ UNCHANGED <<cfg, lens, regIdx, sockAlive, panicked, regVars, wakeVars>>

\* The awaiting future is dropped before the backend reports resolution: the
\* driver keeps the state until it does.
Abandon(o) ==
  /\ Pending(o) /\ ~op[o].abandoned
  /\ op' = [op EXCEPT ![o] = [@ EXCEPT !.abandoned = TRUE]]
  /\ UNCHANGED <<cfg, lens, regIdx, sockAlive, fdRefs, fdOpen, heap, panicked,
                 regVars, wakeVars>>

\* The backend reports the resolution of an abandoned operation: the driver
\* drops the state, buffer included.
Discard(o) ==
  /\ op[o].st = "completed" /\ op[o].abandoned
  /\ op' = [op EXCEPT ![o] = [@ EXCEPT !.st = "discarded", !.fd = 0,
              !.buf = NoBuf, !.info = NoInfo]]
  /\ DropState(o, {op[o].buf.ptr.base})
  /\ UNCHANGED <<cfg, lens, regIdx, sockAlive, panicked, regVars, wakeVars>>

\* The owner of a raw state takes the buffer back and drops the state.
RawDone(o) ==
  /\ op[o].st = "raw"
  /\ op' = [op EXCEPT ![o] = [@ EXCEPT !.st = "dropped", !.fd = 0,
              !.buf = NoBuf]]
  /\ DropState(o, {})
  /\ UNCHANGED <<cfg, lens, regIdx, sockAlive, panicked, regVars, wakeVars>>

\* The socket value that owns the descriptor is dropped.
DropSocket ==
  /\ sockAlive
  /\ sockAlive' = FALSE
  /\ fdRefs' = SharedFd_drop(fdRefs)
  /\ fdOpen' = (fdOpen /\ SharedFd_open(fdRefs'))
  /\ UNCHANGED <<cfg, lens, regIdx, heap, op, panicked, regVars, wakeVars>>

NextOp ==
  \/ \E o \in Ops :
       \/ send(o)
       \/ send_raw(o)
       \/ send_msg(o)
       \/ send_msg_unix(o)
       \/ Complete(o)
       \/ Poll(o)
       \/ Ready(o)
       \/ Resolve(o)
       \/ Abandon(o)
       \/ Discard(o)
       \/ RawDone(o)
  \/ DropSocket

\* The plain sends of the io_uring backend, over lengths around the zero-copy
\* threshold and around 2^32.
NextFlags ==
  \/ \E o \in Ops :
       \/ send(o)
       \/ Complete(o)
       \/ Resolve(o)
       \/ Abandon(o)
       \/ Discard(o)
  \/ DropSocket

SmallLens == {Bytes(0), Bytes(16)}

EdgeLens ==
  {Bytes(0), Bytes(1), Bytes(16),
   Bytes(10 * 1024 * 1024 - 1), Bytes(10 * 1024 * 1024),
   Bytes(10 * 1024 * 1024 + 1),
   <<0, 65535, 65535>>, <<1, 0, 0>>, <<1, 0, 16>>, <<1, 160, 0>>}

\* One open descriptor owned by a socket, and no operation yet.
InitOps(builds, lengths) ==
  /\ cfg \in builds
  /\ lens = lengths
  /\ regIdx \in (IF cfg.backend = "legacy" THEN Options({7}) ELSE {None})
  /\ sockAlive = TRUE
  /\ fdRefs = 1
  /\ fdOpen = TRUE
  /\ heap = {}
  /\ op = [o \in Ops |-> NoOp]
  /\ panicked = FALSE

\* No operation is ever made (Part I on its own).
NoOps ==
  /\ cfg = [target |-> "linux", backend |-> "uring", zero_copy |-> FALSE]
  /\ lens = {}
  /\ regIdx = None
  /\ sockAlive = FALSE
  /\ fdRefs = 0
  /\ fdOpen = FALSE
  /\ heap = {}
  /\ op = [o \in Ops |-> NoOp]
  /\ panicked = FALSE

\* No driver and no waking thread (the registry and the operations on their
\* own).
NoWake ==
  /\ drv = "none"
  /\ mine = [m \in MapNames |-> None]
  /\ chan = {}
  /\ signal = FALSE
  /\ seen = {}
  /\ wk = [t \in Threads |-> IdleWaker]

(***************************************************************************)
(* The specifications.                                                     *)
(***************************************************************************)

\* A run exercises one of the two mappings (they share no state and no lock).
OneMap == {{m} : m \in MapNames}

\* Threads share driver ids: lookups race with register and unregister.
InitShared == InitRegistry(OneMap, FALSE) /\ NoOps /\ NoWake
SpecRegistry == InitShared /\ [][NextRegistry]_vars

\* Every thread only uses the id of its own driver.
InitDisjoint == InitRegistry(OneMap, TRUE) /\ NoOps /\ NoWake
SpecDisjoint == InitDisjoint /\ [][NextRegistry]_vars

\* Both mappings in use at once.
InitBoth == InitRegistry({MapNames}, FALSE) /\ NoOps /\ NoWake
SpecBoth == InitBoth /\ [][NextRegistry]_vars

\* Threads on their own ids under a fair scheduler, with no panic.
SpecFair == InitDisjoint /\ [][NextRegistry]_vars /\ Fair

\* Threads on their own ids, any of which may panic while it holds the lock.
InitPoison == InitRegistry(OneMap, TRUE) /\ NoOps /\ NoWake
SpecPoison == InitPoison /\ [][NextPoison]_vars

\* The operations, on every build.  With buffers this small the zero-copy
\* feature changes nothing; SpecFlags has it.
InitOp ==
  /\ InitRegistry({{}}, FALSE)
  /\ InitOps({b \in Builds : ~b.zero_copy}, SmallLens)
  /\ NoWake
SpecOp == InitOp /\ [][NextOp]_vars

\* A driver and the threads that wake it.  A poll that has been interrupted
\* returns: the driver's thread is not held up for ever once it can run.
InitWake ==
  /\ InitRegistry({MapNames}, FALSE)
  /\ NoOps
  /\ drv = "new"
  /\ mine \in [MapNames -> {Some(h) : h \in Handles}]
  /\ chan = {}
  /\ signal = FALSE
  /\ seen = {}
  /\ wk = [t \in Threads |-> IdleWaker]
SpecWake == InitWake /\ [][NextWake]_vars /\ WF_vars(Wake)

\* Plain sends through io_uring.
InitFlags ==
  InitRegistry({{}}, FALSE) /\ InitOps(UringBuilds, EdgeLens) /\ NoWake
SpecFlags == InitFlags /\ [][NextFlags]_vars

(***************************************************************************)
(* Properties of the registry.                                             *)
(***************************************************************************)

\* The entries map m stores under id.
Entries(m, id) == {e \in Map(m) : e[1] = id}

\* Thread t's lookup returns in this step.
GetReturns(t) == pc[t] = "found" /\ pc'[t] = "idle"

\* C2: in each mapping, a lookup of id yields the handle of the most recent
\* register(id) not followed by an unregister(id), and is absent otherwise;
\* no id ever has more than one entry.
C2_LastWriterWins ==
  /\ [](\A m \in MapNames, id \in Ids :
          /\ lookup(Map(m), id) = last[m][id]
          /\ Cardinality(Entries(m, id)) <= 1)
  /\ [][\A t \in Threads :
          GetReturns(t) => ret'[t] = last[call[t].m][call[t].id]]_vars

\* Two lookups of one id returned different handles, the later one the handle
\* registered last, which is the one entry stored.
C2_Witness ==
  \E t, u \in Threads :
    /\ pc[t] = "idle" /\ call[t].fn = "get" /\ ret[t] = Some(2)
    /\ pc[u] = "idle" /\ call[u].fn = "get" /\ ret[u] = Some(1)
    /\ call[t].m = call[u].m /\ call[t].id = call[u].id
    /\ Entries(call[t].m, call[t].id) = {<<call[t].id, 2>>}

\* C3: when every thread keeps to its own id, the entry of each id is what the
\* calls of that id's thread produce, and a step of one thread leaves the
\* entries of every other id as they were.
C3_NoCrossIdInterference ==
  /\ [](\A m \in MapNames, t \in Threads : lookup(Map(m), t) = own[m][t])
  /\ [][\A t \in Threads : pc'[t] # pc[t] =>
          \A m \in MapNames, j \in Ids \ {t} :
            Entries(m, j)' = Entries(m, j)]_vars

\* Thread 1 is about to unregister its id while thread 2 is inside a lookup
\* of its own, and both ids are registered.
C3_Witness ==
  \E m \in MapNames :
    /\ disjoint
    /\ lookup(Map(m), 1) = Some(1) /\ lookup(Map(m), 2) = Some(2)
    /\ pc[1] = "lock" /\ call[1].fn = "unregister"
    /\ pc[2] = "found" /\ ref[2] = Some(<<2, 2>>)

\* C5: a lookup racing with unregister or register of its id returns absent or
\* the handle stored under the id while the lookup holds the lock; a handle a
\* lookup returned stays alive whatever happens to the entry; a lookup that
\* takes the lock when the id is unregistered returns absent.
C5_LookupRace ==
  /\ [](\A t \in Threads : \A h \in ret[t] : rc[call[t].m][h] > 0)
  /\ [][\A t \in Threads : GetReturns(t) =>
          /\ ret'[t] = lookup(Map(call[t].m), call[t].id)
          /\ clean[t] => ret'[t] = None]_vars

\* A lookup returned a clone while an unregister of the same id waited for the
\* lock; the entry has since been removed, a later lookup of the id by the
\* other thread returned absent, and the clone is the one left alive.
C5_Witness ==
  \E t, u \in Threads :
    /\ pc[t] = "idle" /\ call[t].fn = "get" /\ ret[t] # None /\ raced[t]
    /\ pc[u] = "idle" /\ call[u].fn = "get" /\ ret[u] = None
    /\ call[t].m = call[u].m /\ call[t].id = call[u].id
    /\ Entries(call[t].m, call[t].id) = {}
    /\ \A h \in ret[t] : rc[call[t].m][h] = 1

(***************************************************************************)
(* Properties of the operations.                                           *)
(***************************************************************************)

MsgKinds == {"SendMsg", "SendMsgUnix"}

\* The SharedFd clones the states hold.
RECURSIVE HeldByOps(_)
HeldByOps(n) == IF n = 0 THEN 0 ELSE op[n].fd + HeldByOps(n - 1)

\* C1: whatever result the backend delivered, the pair write() or wait()
\* yields holds that result and the very buffer the constructor was given,
\* still allocated.
C1_BufferReturned ==
  \A o \in Ops : op[o].st = "resolved" =>
    /\ op[o].out.given
    /\ op[o].out.buf = op[o].supplied
    /\ op[o].out.buf.id = o
    /\ op[o].out.buf.ptr.base \in heap
    /\ op[o].out.result = op[o].result
    /\ op[o].result = op[o].os

\* A send failed and its buffer came back.
C1_Witness ==
  \E o \in Ops :
    /\ op[o].st = "resolved"
    /\ op[o].result = BrokenPipe
    /\ op[o].out.result = BrokenPipe
    /\ op[o].out.buf.id = o

\* C4: a state holds one SharedFd clone from its construction to its drop;
\* the descriptor is open while a state is alive, and is closed only when the
\* socket and every state have dropped their clones.
C4_FdLiveness ==
  /\ \A o \in Ops : Alive(o) => op[o].fd = 1 /\ fdOpen
  /\ \A o \in Ops : ~Alive(o) => op[o].fd = 0
  /\ ~fdOpen => ~sockAlive /\ \A o \in Ops : ~Alive(o)
  /\ fdRefs = (IF sockAlive THEN 1 ELSE 0) + HeldByOps(MaxOps)

\* The socket was dropped while an operation was in flight, and the
\* descriptor is still open.
C4_Witness ==
  \E o \in Ops :
    ~sockAlive /\ op[o].st \in {"inflight", "raw"} /\ fdOpen /\ fdRefs = 1

\* C6: until the backend reports the resolution of a message send, abandoned
\* or not, its bundle is allocated where the constructor put it, the header
\* points at the bundle's own iovec (count 1) and at the bundle's own address
\* or at nothing, the iovec describes the buffer, and the buffer is allocated.
C6_BundleStable ==
  \A o \in Ops : Pending(o) /\ op[o].kind \in MsgKinds =>
    LET s == op[o] IN
    /\ s.info.at = s.born
    /\ s.info.at \in heap
    /\ s.info.hdr.msg_iov = Ptr(s.info.at, "iov")
    /\ s.info.hdr.msg_iovlen = 1
    /\ s.info.iov.iov_base = read_ptr(s.buf)
    /\ s.info.iov.iov_len = bytes_init(s.buf)
    /\ s.info.hdr.msg_name \in {NULL, Ptr(s.info.at, "addr")}
    /\ s.buf = s.supplied
    /\ s.buf.ptr.base \in heap
    /\ s.buf.ptr.base # s.info.at
    /\ s.st = "inflight" => s.entry.msg = Ptr(s.info.at, "hdr")

\* A message send with a destination was moved into the driver, pushed to the
\* kernel and then abandoned by its task.
C6_Witness ==
  \E o \in Ops :
    /\ op[o].kind \in MsgKinds /\ op[o].st = "inflight" /\ op[o].abandoned
    /\ op[o].loc = SlabPlace(o)
    /\ op[o].info.hdr.msg_name = Ptr(op[o].born, "addr")

\* C7: with a destination, the header's address pointer is not null and its
\* address length is the length of the converted address in the bundle;
\* without one, the pointer is null and the length zero.
C7_HeaderAddress ==
  \A o \in Ops : Alive(o) /\ op[o].kind \in MsgKinds =>
    LET s == op[o] IN
    /\ s.dest # None =>
         /\ s.info.addr # None
         /\ s.info.hdr.msg_name # NULL
         /\ \A a \in s.info.addr : s.info.hdr.msg_namelen = a.len
    /\ s.dest = None =>
         /\ s.info.hdr.msg_name = NULL
         /\ s.info.hdr.msg_namelen = 0

\* A send to an IPv6 destination: the header carries the 28 bytes of a
\* sockaddr_in6.
C7_Witness ==
  \E o \in Ops :
    /\ Alive(o) /\ op[o].kind = "SendMsg" /\ op[o].dest = Some("V6")
    /\ op[o].info.hdr.msg_namelen = 28
    /\ op[o].info.hdr.msg_name # NULL

C17_LengthKept ==
  \A o \in Ops : op[o].entry.opcode = "Send" =>
    op[o].entry.len = bytes_init(op[o].supplied)

\* The legacy driver has asked the state of slot o for its interest.
Asked(o) ==
  /\ cfg.backend = "legacy"
  /\ op[o].st \in {"waiting", "parked", "completed", "resolved", "discarded"}

\* C9: the interest is (Write, index) exactly when the descriptor has a
\* registration index and is "no interest" otherwise, never a read interest;
\* an operation that reported no interest is never given the raw call.
C9_Interest ==
  \A o \in Ops : Asked(o) =>
    /\ regIdx # None => op[o].interest = {<<"Write", idx>> : idx \in regIdx}
    /\ regIdx = None => op[o].interest = None
    /\ \A i \in op[o].interest : i[1] = "Write"
    /\ op[o].interest = None => op[o].calls = 0 /\ op[o].sys = 0

\* An operation on an unregistered descriptor reported no interest and is
\* left alone.
C9_Witness ==
  \E o \in Ops :
    /\ regIdx = None /\ op[o].st = "parked" /\ op[o].interest = None
    /\ op[o].calls = 0

\* C10: a constructor makes no send syscall; a syscall is made only by the raw
\* call or by the kernel for a pushed entry; each raw call makes one attempt
\* and returns what that attempt gave, would-block included.
C10_OneAttempt ==
  [][\A o \in Ops :
       /\ (op[o].st = "none" /\ op'[o].st # "none") =>
            op'[o].sys = 0 /\ op'[o].calls = 0
       /\ op'[o].sys # op[o].sys => op[o].st \in {"inflight", "waiting", "raw"}
       /\ op'[o].calls # op[o].calls =>
            /\ op'[o].calls = op[o].calls + 1
            /\ op'[o].sys = op[o].sys + 1
            /\ op'[o].result = op'[o].os]_vars

\* A raw call came back with would-block after a single attempt.
C10_Witness ==
  \E o \in Ops :
    /\ op[o].st = "waiting" /\ op[o].calls = 1 /\ op[o].sys = 1
    /\ op[o].result = WouldBlock

(***************************************************************************)
(* Properties of the registry at work.                                     *)
(***************************************************************************)

\* What a waking thread holds is absent or a counted clone of the driver's
\* own handle, and a lookup made while the driver stayed registered found it.
WakeSafe ==
  \A w \in Wakers, m \in MapNames :
    /\ wk[w].held[m] \in {None, mine[m]}
    /\ \A h \in wk[w].held[m] : rc[m][h] >= 1
    /\ wk[w].sure[m] => wk[w].held[m] = mine[m]

\* Thread w has pushed its token and invoked the unpark handle, and the driver
\* is blocked in its poll.
WakeRequested(w) ==
  wk[w].pc = "done" /\ wk[w].pushed /\ wk[w].unparked /\ drv = "blocked"

\* C11: when a thread has looked up both entries of a registered driver,
\* pushed a wake token and invoked the unpark handle while the driver is
\* blocked, the poll returns and the driver takes the token (it takes tokens
\* only when its poll has returned); and whatever the
\* race with the driver's unregistration, a lookup gives absent or a live
\* clone of the driver's handle.
C11_Wake ==
  /\ []WakeSafe
  /\ \A w \in Wakers : WakeRequested(w) ~> (w \in seen)

\* The driver has been woken and has taken the token of a thread whose wake
\* request was complete.
C11_Witness ==
  \E w \in Wakers :
    /\ wk[w].pc = "done" /\ wk[w].pushed /\ wk[w].unparked
    /\ w \in seen /\ ~signal /\ drv = "running"

\* C12: once the Mutex of a mapping is poisoned, the map is never modified
\* again, no thread is ever inside its critical section (where the map is
\* read and written), and every call that reaches its lock aborts: it leaves
\* the lock for "aborted", returns nothing and never runs again.
C12_PoisonAborts ==
  [][/\ \A m \in MapNames : poisoned[m] =>
          /\ Map(m)' = Map(m)
          /\ \A t \in Threads : call'[t].m = m => pc'[t] \notin {"crit", "found"}
          /\ \A t \in Threads : (call[t].m = m /\ pc[t] = "lock") =>
               /\ pc'[t] \in {"lock", "aborted"}
               /\ ret'[t] = ret[t]
     /\ \A t \in Threads : pc[t] = "aborted" =>
          /\ pc'[t] = "aborted"
          /\ poisoned[call[t].m]
          /\ ret[t] = None]_vars

\* A thread panicked while it held the lock of a mapping that had an entry,
\* and a later lookup on that mapping aborted.
C12_Witness ==
  \E t \in Threads, u \in Threads :
    /\ pc[u] = "died" /\ pc[t] = "aborted"
    /\ call[t].m = call[u].m /\ call[t].fn = "get"
    /\ poisoned[call[t].m] /\ Map(call[t].m) # {}

\* The locks thread t holds.
Held(t) == {m \in MapNames : mutex[m] = t}

\* A thread holds the lock of the mapping of its call, and no other, exactly
\* while it is inside the statement; it holds none before and after.
OneLock ==
  \A t \in Threads :
    Held(t) = IF pc[t] \in {"crit", "found"} THEN {call[t].m} ELSE {}

\* C14: every call holds exactly the lock of its mapping while it performs
\* its one map operation and no lock when it has returned; and under a fair
\* scheduler, with no panic, every call that was entered returns.
C14_Returns ==
  /\ []OneLock
  /\ \A t \in Threads : (pc[t] # "idle") ~> (pc[t] = "idle")

\* A thread waits for the lock of the mapping while another thread is inside
\* its lookup on that mapping.
C14_Witness ==
  \E t \in Threads, u \in Threads :
    /\ pc[t] = "lock" /\ pc[u] = "found"
    /\ call[t].m = call[u].m /\ Held(u) = {call[u].m} /\ Held(t) = {}

\* The converted destination the constructor of o stored in the bundle.
Converted(o) ==
  IF op[o].kind = "SendMsg" THEN {SockAddr_from(a) : a \in op[o].dest}
  ELSE op[o].dest

\* What a capability method called on the state of slot o now would hand to
\* the kernel.
Built(o) ==
  IF cfg.backend = "uring" THEN uring_op(op[o])
  ELSE IF op[o].kind = "Send" THEN Send_legacy_args(op[o])
  ELSE SendMsg_legacy_args(op[o])

\* C15: whatever capability methods have been called on a state, it holds its
\* FD handle and the buffer it was given, and a message state's bundle is at
\* the address, and has the address, iovec and header, that its constructor
\* set (null and zero address fields when no destination was given); building
\* the entry or the call's arguments again from the state gives those that
\* were handed to the kernel.
C15_ReadOnly ==
  \A o \in Ops : Alive(o) =>
    /\ op[o].fd = 1
    /\ op[o].buf = op[o].supplied
    /\ op[o].kind \in MsgKinds =>
         /\ op[o].info = SendMsgInfo(op[o].supplied, Converted(o), op[o].born)
         /\ op[o].dest = None =>
              /\ op[o].info.hdr.msg_name = NULL
              /\ op[o].info.hdr.msg_namelen = 0
    /\ op[o].entry # NoEntry => op[o].entry = Built(o)

\* A message send without destination went through legacy_interest and two
\* raw calls, the second of which sent the whole payload.
C15_Witness ==
  \E o \in Ops :
    /\ op[o].kind \in MsgKinds /\ op[o].dest = None
    /\ op[o].st = "completed" /\ op[o].calls = 2
    /\ op[o].interest # None
    /\ op[o].result = Ok(bytes_init(op[o].supplied))
    /\ op[o].info.hdr.msg_name = NULL

\* C16: a step of a call on one mapping leaves the other mapping and its lock
\* as they were, a lookup returns what its own mapping holds, and what each
\* mapping holds is what the calls on that mapping stored last; a driver
\* registered in one mapping only is absent from the other.
C16_Independent ==
  /\ [](\A m \in MapNames, id \in Ids : lookup(Map(m), id) = last[m][id])
  /\ [][\A t \in Threads, n \in MapNames :
          (pc[t] # "idle" /\ pc'[t] # pc[t] /\ n # call[t].m) =>
            /\ Map(n)' = Map(n)
            /\ mutex'[n] = mutex[n]
            /\ last'[n] = last[n]
            /\ GetReturns(t) => ret'[t] = lookup(Map(call[t].m), call[t].id)]_vars

\* A driver is registered in UNPARK only, and a lookup of its id in
\* WAKER_SENDER, which holds the sender of another driver, returned None.
C16_Witness ==
  \E t \in Threads, id \in Ids :
    /\ pc[t] = "idle" /\ ret[t] = None
    /\ call[t] = [fn |-> "get", m |-> "WAKER_SENDER", id |-> id]
    /\ lookup(UNPARK, id) # None
    /\ lookup(WAKER_SENDER, id) = None
    /\ WAKER_SENDER # {}

(***************************************************************************)
(* Properties of the platforms.                                            *)
(***************************************************************************)

\* A constructor that failed left nothing behind: no state was submitted,
\* nothing was handed to the kernel, no syscall was made and no pair given.
NothingDone(o) ==
  /\ op[o].loc = 0 /\ op[o].fd = 0 /\ op[o].buf = NoBuf /\ op[o].info = NoInfo
  /\ op[o].entry = NoEntry
  /\ op[o].calls = 0 /\ op[o].sys = 0
  /\ ~op[o].out.given

====
